---- MODULE Spec2Model ----
(***************************************************************************)
(* State-machine model of the BayesEvolve samplers (React components).     *)
(*                                                                         *)
(* Each component is a set of React state cells (useState), mirror refs    *)
(* (useRef, written by a passive effect after a render) and callbacks.     *)
(* JavaScript runs every callback to completion; the state updates a       *)
(* callback queues are applied by the render that follows it, and the      *)
(* effects of that render (ref mirrors, timer set-up and clean-up) run     *)
(* with it.                                                                *)
(*  - A click or change handler is rendered before any other task runs:    *)
(*    the handler and its render are one action.                           *)
(*  - A periodic source (setInterval ticks, successive animation frames)   *)
(*    is taken to have its render carried out before it fires again: a     *)
(*    tick and its render are one action.                                  *)
(*  - The Metropolis-Hastings animation frame calls step() stepsPerFrame   *)
(*    times in one callback; that burst is modelled step by step, with     *)
(*    the render at its end.                                               *)
(*  - The HMC halt timeout is due at a time unrelated to the animation     *)
(*    frames, so it can fire between a frame callback and the render of    *)
(*    that frame; there the render is an action of its own (HMCRender).    *)
(*                                                                         *)
(* Real numbers are fixed point: Metropolis-Hastings coordinates are in    *)
(* units of 1/GridPerUnit, Math.random() draws are multiples of 1/RandDen. *)
(***************************************************************************)
EXTENDS Integers, Sequences, FiniteSets, TLC

VARIABLES
    \* ---- ModuleMetropolis ----
    position,          \* useState position
    proposal,          \* useState proposal (NoProposal = null)
    history,           \* useState history
    isRunning,         \* useState isRunning
    speed,             \* useState speed
    acceptedCount,     \* useState acceptedCount
    totalCount,        \* useState totalCount
    proposalSigma,     \* useState proposalSigma
    lastDecision,      \* useState lastDecision (NoDecision = null); the
                       \* displayed ratio and roll are not kept
    positionRef,       \* useRef positionRef.current
    proposalSigmaRef,  \* useRef proposalSigmaRef.current
    burstLeft,         \* calls of step() still to run in the current frame
    mhOp,              \* record of the last accept/reject step (observer)
    proposedFrom,      \* position and width the pending proposal was drawn
                       \* from (observer)
    \* ---- ModuleGibbs ----
    rho,               \* useState rho
    gibbsPosition,     \* useState position
    gibbsHistory,      \* useState history
    turn,              \* useState turn
    gibbsIsRunning,    \* useState isRunning
    gibbsSpeed,        \* useState speed
    gibbsPositionRef,  \* useRef positionRef.current
    turnRef,           \* useRef turnRef.current
    rhoRef,            \* useRef rhoRef.current
    gibbsOp,           \* record of the last Gibbs operation (observer)
    \* ---- ModuleHMC ----
    particle,          \* useState particle: q, p, path
    isSimulating,      \* useState isSimulating
    samples,           \* useState samples
    dt,                \* useState dt
    energyHistory,     \* useState energyHistory
    initialEnergy,     \* useState initialEnergy (<<>> = null)
    particleRef,       \* useRef particleRef.current
    draggingRef,       \* useRef draggingRef.current (NoDrag = null)
    rafPending,        \* requestRef.current names a frame request not yet run
    timerPending,      \* the 3 s timeout of the simulation effect is pending
    hmcPc,             \* "effect" while the simulation effect is about to
                       \* run, "render" while a frame's render is queued
    hmcOp,             \* record of the last HMC operation (observer)
    \* ---- ModuleVariational ----
    mu,                \* useState mu
    sigma,             \* useState sigma
    isOptimizing,      \* useState isOptimizing
    optimizationHistory, \* useState optimizationHistory (the elbo field of
                       \* an entry is not kept)
    viSteps,           \* optimization steps run since the last reset (observer)
    viOp,              \* record of the last variational operation (observer)
    \* ---- ModuleAnalytical and ProgressProvider ----
    mode,              \* useState mode
    alphaPrior,        \* useState alphaPrior
    betaPrior,         \* useState betaPrior
    heads,             \* useState heads
    tails,             \* useState tails
    isFlipping,        \* useState isFlipping
    flipTimers,        \* pending 400 ms timeouts of handleFlip, oldest first:
                       \* each holds the tutorialStep its closure captured
    priorMean,         \* useState priorMean
    priorStd,          \* useState priorStd
    sensorData,        \* useState sensorData
    gammaAlpha,        \* useState gammaAlpha
    gammaBeta,         \* useState gammaBeta
    busCounts,         \* useState busCounts
    tutorialStep,      \* ProgressProvider useState tutorialStep
    firstFlipUnlocked, \* achievements: FIRST_FLIP unlocked
    flipLog,           \* outcomes landed since heads and tails were last
                       \* zeroed (observer)
    anOp,              \* record of the last conjugate operation (observer)
    \* ---- App ----
    currentModule      \* useState currentModule

mhVars == <<position, proposal, history, isRunning, speed, acceptedCount,
            totalCount, proposalSigma, lastDecision, positionRef,
            proposalSigmaRef, burstLeft, mhOp,
           proposedFrom>>

gibbsVars == <<rho, gibbsPosition, gibbsHistory, turn, gibbsIsRunning,
               gibbsSpeed, gibbsPositionRef, turnRef, rhoRef, gibbsOp>>

hmcVars == <<particle, isSimulating, samples, dt, energyHistory,
             initialEnergy, particleRef, draggingRef, rafPending,
             timerPending, hmcPc, hmcOp>>

viVars == <<mu, sigma, isOptimizing, optimizationHistory, viSteps, viOp>>

anVars == <<mode, alphaPrior, betaPrior, heads, tails, isFlipping, flipTimers,
            priorMean, priorStd, sensorData, gammaAlpha, gammaBeta, busCounts,
            tutorialStep, firstFlipUnlocked, flipLog, anOp>>

vars == <<mhVars, gibbsVars, hmcVars, viVars, anVars, currentModule>>

\* App renders one module at a time: the others are not mounted
MHOnly == UNCHANGED <<gibbsVars, hmcVars, viVars, anVars, currentModule>>
GibbsOnly == UNCHANGED <<mhVars, hmcVars, viVars, anVars, currentModule>>
HMCOnly == UNCHANGED <<mhVars, gibbsVars, viVars, anVars, currentModule>>
VIOnly == UNCHANGED <<mhVars, gibbsVars, hmcVars, anVars, currentModule>>
ANOnly == UNCHANGED <<mhVars, gibbsVars, hmcVars, viVars, currentModule>>

----------------------------------------------------------------------------
(* Generic helpers *)

Min(a, b) == IF a < b THEN a ELSE b

Max(a, b) == IF a > b THEN a ELSE b

\* Array.prototype.slice(-n): the last n elements (all of them if fewer)
SliceLast(s, n) == IF Len(s) <= n THEN s ELSE SubSeq(s, Len(s) - n + 1, Len(s))

Last(s) == s[Len(s)]

----------------------------------------------------------------------------
(* Metropolis-Hastings: discretisation and bounds *)

GridPerUnit == 5            \* coordinates are multiples of 0.2
RandDen == 4                \* Math.random() is a multiple of 1/4
RandDraws == {0, 3}         \* draws 0 and 0.75 used for the x of a proposal
RandDrawsY == {3}           \* draw 0.75 used for the y of a proposal
Rolls == 0..(RandDen - 1)   \* draws used for the accept roll
MaxTotal == 3               \* steps explored per run (totalCount cap)
HistoryKeep == 2            \* argument of h.slice(-200), scaled down
BurstMid == 2               \* stepsPerFrame at speed 2 (5), scaled down
BurstMax == 3               \* stepsPerFrame at speed 3 (50), scaled down
SigmaInit == 4              \* proposalSigma 0.8 in grid units
SigmaValues == {4, 10}      \* slider positions 0.8 and 2.0 in grid units
BoxMax == 10 * GridPerUnit  \* WIDTH/SCALE = HEIGHT/SCALE = 10

GridLo == 0 - 25
GridHi == 75

\* exp(-(t/5 - 3)^2 / (2 * 1.5^2)) * 1000, t = GridLo..GridHi
G1Tab == <<0, 0, 0, 0, 0, 0, 0, 0, 0, 0, 0, 1, 1, 2, 2, 4, 6, 9, 14, 20, 29,
  40, 56, 77, 103, 135, 175, 223, 278, 341, 411, 487, 566, 647, 726, 801,
  867, 923, 965, 991, 1000, 991, 965, 923, 867, 801, 726, 647, 566, 487, 411,
  341, 278, 223, 175, 135, 103, 77, 56, 40, 29, 20, 14, 9, 6, 4, 2, 2, 1, 1,
  0, 0, 0, 0, 0, 0, 0, 0, 0, 0, 0, 0, 0, 0, 0, 0, 0, 0, 0, 0, 0, 0, 0, 0, 0,
  0, 0, 0, 0, 0, 0>>

\* exp(-(t/5 - 7)^2 / 2) * 1000, t = GridLo..GridHi
G2Tab == <<0, 0, 0, 0, 0, 0, 0, 0, 0, 0, 0, 0, 0, 0, 0, 0, 0, 0, 0, 0, 0, 0,
  0, 0, 0, 0, 0, 0, 0, 0, 0, 0, 0, 0, 0, 0, 0, 0, 0, 0, 0, 1, 2, 3, 6, 11,
  20, 34, 56, 89, 135, 198, 278, 375, 487, 607, 726, 835, 923, 980, 1000,
  980, 923, 835, 726, 607, 487, 375, 278, 198, 135, 89, 56, 34, 20, 11, 6, 3,
  2, 1, 0, 0, 0, 0, 0, 0, 0, 0, 0, 0, 0, 0, 0, 0, 0, 0, 0, 0, 0, 0, 0>>

\* exp(-z/2) of bivariateNormalPdf with rho = 0 factorises per axis
Gauss(tab, t) == IF t < GridLo \/ t > GridHi THEN 0 ELSE tab[t - GridLo + 1]

\* targetMapPdf up to the common factor 1/(2 pi): peak 1 has weight
\* 1/(1.5*1.5), peak 2 has weight 0.5, i.e. 8 : 9
targetMapPdf(x, y) ==
    8 * Gauss(G1Tab, x) * Gauss(G1Tab, y) + 9 * Gauss(G2Tab, x) * Gauss(G2Tab, y)

Pos(x, y) == [x |-> x, y |-> y]

StartPos == Pos(5 * GridPerUnit, 5 * GridPerUnit)

NoProposal == [none |-> TRUE]

NoDecision == [none |-> TRUE]

NoOp == [kind |-> "none"]

\* (Math.random() - 0.5) * 2 * sigma
Offset(r, sd) == ((2 * r - RandDen) * sd) \div RandDen

\* propX < 0 || propX > WIDTH/SCALE || propY < 0 || propY > HEIGHT/SCALE
OutOfBounds(x, y) == x < 0 \/ x > BoxMax \/ y < 0 \/ y > BoxMax

\* roll < num/den in IEEE arithmetic: x/0 is Infinity for x > 0, 0/0 is NaN
LessThanRatio(roll, num, den) ==
    IF den = 0 THEN num > 0 ELSE roll * den < RandDen * num

\* ratio >= 1 in IEEE arithmetic
RatioAtLeastOne(num, den) == IF den = 0 THEN num > 0 ELSE num >= den

\* Math.random() < acceptanceRatio
AutoAccepts(roll, num, den) == LessThanRatio(roll, num, den)

\* roll < Math.max(1, ratio): min and max exchanged
ManualAcceptsMax(roll, num, den) ==
    IF den = 0
      THEN IF num > 0 THEN TRUE ELSE FALSE
      ELSE IF num >= den THEN roll * den < RandDen * num ELSE roll < RandDen

\* roll < Math.min(1, ratio)
ManualAccepts(roll, num, den) ==
    IF den = 0
      THEN num > 0 /\ roll < RandDen
      ELSE IF num >= den THEN roll < RandDen ELSE roll * den < RandDen * num

\* speed === 1 ? 1 : speed === 2 ? 5 : 50
StepsPerFrame(s) == IF s = 1 THEN 1 ELSE IF s = 2 THEN BurstMid ELSE BurstMax

----------------------------------------------------------------------------
(* Metropolis-Hastings: initial state *)

MHInit ==
    /\ position = StartPos
    /\ proposal = NoProposal
    /\ history = <<>>
    /\ isRunning = FALSE
    /\ speed = 1
    /\ acceptedCount = 0
    /\ totalCount = 0
    /\ proposalSigma = SigmaInit
    /\ lastDecision = NoDecision
    /\ positionRef = StartPos
    /\ proposalSigmaRef = SigmaInit
    /\ burstLeft = 0
    /\ mhOp = NoOp
    /\ proposedFrom = NoProposal

(* Metropolis-Hastings: actions *)

\* An out-of-bounds proposal recorded like a rejection
HistoryAfterRejectOutOfBounds(h, pos) == Append(SliceLast(h, HistoryKeep), pos)

\* The bounds check of step() returns before any setHistory
HistoryAfterOutOfBounds(h, pos) == h

\* One call of step() inside the frame callback.  The render that follows
\* the callback (and with it the two ref mirrors) happens after the last call.
MHStep(rx, ry, roll) ==
    /\ burstLeft > 0
    /\ LET pos == positionRef
           sd == proposalSigmaRef
           currentPdf == targetMapPdf(pos.x, pos.y)
           propX == pos.x + Offset(rx, sd)
           propY == pos.y + Offset(ry, sd)
           propPdf == targetMapPdf(propX, propY)
           oob == OutOfBounds(propX, propY)
           acc == (~oob) /\ AutoAccepts(roll, propPdf, currentPdf)
           newPos == Pos(propX, propY)
       IN  /\ IF oob
                THEN /\ history' = HistoryAfterOutOfBounds(history, pos)
                     /\ UNCHANGED <<position, acceptedCount>>
                ELSE IF acc
                  THEN /\ position' = newPos
                       /\ history' = Append(SliceLast(history, HistoryKeep), newPos)
                       /\ acceptedCount' = acceptedCount + 1
                  ELSE /\ history' = Append(SliceLast(history, HistoryKeep), pos)
                       /\ UNCHANGED <<position, acceptedCount>>
           /\ totalCount' = totalCount + 1
           /\ mhOp' = [kind |-> "auto", fresh |-> (pos = position),
                       oob |-> oob, acc |-> acc,
                       prop |-> IF acc THEN newPos ELSE NoProposal,
                       uphill |-> (~oob) /\ RatioAtLeastOne(propPdf, currentPdf),
                       top |-> (~oob) /\ roll = RandDen - 1,
                       other |-> (~oob) /\ ManualAccepts(roll, propPdf, currentPdf)]
    /\ burstLeft' = burstLeft - 1
    /\ IF burstLeft' = 0
         THEN positionRef' = position'
         ELSE UNCHANGED positionRef
    /\ UNCHANGED <<proposal, isRunning, speed, proposalSigma, lastDecision,
                   proposalSigmaRef>>
    /\ UNCHANGED proposedFrom
    /\ MHOnly

\* loop() fired by a frame request that the effect cleanup did not cancel
MHFrameNotCancelled ==
    /\ burstLeft = 0
    /\ totalCount + StepsPerFrame(speed) <= MaxTotal
    /\ burstLeft' = StepsPerFrame(speed)
    /\ UNCHANGED <<position, proposal, history, isRunning, speed,
                   acceptedCount, totalCount, proposalSigma, lastDecision,
                   positionRef, proposalSigmaRef, mhOp>>
    /\ UNCHANGED proposedFrom
    /\ MHOnly

\* requestAnimationFrame fires loop(): the burst of the next frame begins.
\* The cleanup of the auto-run effect cancels the request when isRunning
\* turns false.
MHFrame ==
    /\ isRunning
    /\ burstLeft = 0
    /\ totalCount + StepsPerFrame(speed) <= MaxTotal
    /\ burstLeft' = StepsPerFrame(speed)
    /\ UNCHANGED <<position, proposal, history, isRunning, speed,
                   acceptedCount, totalCount, proposalSigma, lastDecision,
                   positionRef, proposalSigmaRef, mhOp>>
    /\ UNCHANGED proposedFrom
    /\ MHOnly

\* Play / Pause button.  On Play the auto-run effect calls loop() at once.
MHToggleRun ==
    /\ burstLeft = 0
    /\ isRunning \/ totalCount + StepsPerFrame(speed) <= MaxTotal
    /\ isRunning' = ~isRunning
    /\ burstLeft' = IF isRunning' THEN StepsPerFrame(speed) ELSE 0
    /\ mhOp' = NoOp
    /\ UNCHANGED <<position, proposal, history, speed, acceptedCount,
                   totalCount, proposalSigma, lastDecision, positionRef,
                   proposalSigmaRef>>
    /\ UNCHANGED proposedFrom
    /\ MHOnly

\* Speed slider.  speed is a dependency of the auto-run effect, which is
\* torn down and, when running, started again (loop() is called at once).
MHSetSpeed(s) ==
    /\ burstLeft = 0
    /\ s # speed
    /\ isRunning => totalCount + StepsPerFrame(s) <= MaxTotal
    /\ speed' = s
    /\ burstLeft' = IF isRunning THEN StepsPerFrame(s) ELSE 0
    /\ mhOp' = NoOp
    /\ UNCHANGED <<position, proposal, history, isRunning, acceptedCount,
                   totalCount, proposalSigma, lastDecision, positionRef,
                   proposalSigmaRef>>
    /\ UNCHANGED proposedFrom
    /\ MHOnly

\* Proposal width slider
MHSetProposalSigma(s) ==
    /\ burstLeft = 0
    /\ s # proposalSigma
    /\ proposalSigma' = s
    /\ proposalSigmaRef' = s
    /\ mhOp' = NoOp
    /\ UNCHANGED <<position, proposal, history, isRunning, speed,
                   acceptedCount, totalCount, lastDecision, positionRef,
                   burstLeft>>
    /\ UNCHANGED proposedFrom
    /\ MHOnly

\* handleManualPropose without its early return and with the button enabled
\* while a proposal is pending
handleManualProposeAgain(rx, ry) ==
    /\ burstLeft = 0
    /\ ~isRunning
    /\ proposal' = Pos(position.x + Offset(rx, proposalSigma),
                       position.y + Offset(ry, proposalSigma))
    /\ lastDecision' = NoDecision
    /\ mhOp' = NoOp
    /\ UNCHANGED <<position, history, isRunning, speed, acceptedCount,
                   totalCount, proposalSigma, positionRef, proposalSigmaRef,
                   burstLeft>>
    /\ proposedFrom' = [pos |-> position, sd |-> proposalSigma]
    /\ MHOnly

\* Button "1. Propose" (disabled={isRunning || proposal !== null})
handleManualPropose(rx, ry) ==
    /\ burstLeft = 0
    /\ ~isRunning
    /\ proposal = NoProposal
    /\ proposal' = Pos(position.x + Offset(rx, proposalSigma),
                       position.y + Offset(ry, proposalSigma))
    /\ lastDecision' = NoDecision
    /\ mhOp' = NoOp
    /\ UNCHANGED <<position, history, isRunning, speed, acceptedCount,
                   totalCount, proposalSigma, positionRef, proposalSigmaRef,
                   burstLeft>>
    /\ proposedFrom' = [pos |-> position, sd |-> proposalSigma]
    /\ MHOnly

\* Button "2. Accept/Reject" (disabled={isRunning || proposal === null})
handleManualDecide(roll) ==
    /\ burstLeft = 0
    /\ ~isRunning
    /\ proposal # NoProposal
    /\ totalCount < MaxTotal
    /\ LET currentPdf == targetMapPdf(position.x, position.y)
           propPdf == targetMapPdf(proposal.x, proposal.y)
           accepted == ManualAccepts(roll, propPdf, currentPdf)
       IN  /\ lastDecision' = [accepted |-> accepted]
           /\ IF accepted
                THEN /\ position' = proposal
                     /\ history' = Append(history, proposal)
                     /\ acceptedCount' = acceptedCount + 1
                ELSE /\ history' = Append(history, position)
                     /\ UNCHANGED <<position, acceptedCount>>
           /\ mhOp' = [kind |-> "manual", fresh |-> TRUE,
                       oob |-> OutOfBounds(proposal.x, proposal.y),
                       acc |-> accepted,
                       prop |-> IF accepted THEN proposal ELSE NoProposal,
                       uphill |-> RatioAtLeastOne(propPdf, currentPdf),
                       top |-> roll = RandDen - 1,
                       other |-> AutoAccepts(roll, propPdf, currentPdf)]
    /\ totalCount' = totalCount + 1
    /\ proposal' = NoProposal
    /\ positionRef' = position'
    /\ UNCHANGED <<isRunning, speed, proposalSigma, proposalSigmaRef, burstLeft>>
    /\ proposedFrom' = NoProposal
    /\ MHOnly

\* reset() without setAcceptedCount(0)
MHResetKeepsAccepted ==
    /\ burstLeft = 0
    /\ position' = StartPos
    /\ proposal' = NoProposal
    /\ history' = <<>>
    /\ acceptedCount' = acceptedCount
    /\ totalCount' = 0
    /\ isRunning' = FALSE
    /\ lastDecision' = NoDecision
    /\ positionRef' = StartPos
    /\ mhOp' = NoOp
    /\ UNCHANGED <<speed, proposalSigma, proposalSigmaRef, burstLeft>>
    /\ proposedFrom' = NoProposal
    /\ MHOnly

\* Button "Reset sampler"
MHReset ==
    /\ burstLeft = 0
    /\ position' = StartPos
    /\ proposal' = NoProposal
    /\ history' = <<>>
    /\ acceptedCount' = 0
    /\ totalCount' = 0
    /\ isRunning' = FALSE
    /\ lastDecision' = NoDecision
    /\ positionRef' = StartPos
    /\ mhOp' = NoOp
    /\ UNCHANGED <<speed, proposalSigma, proposalSigmaRef, burstLeft>>
    /\ proposedFrom' = NoProposal
    /\ MHOnly

MHNext ==
    \/ \E rx \in RandDraws, ry \in RandDrawsY, roll \in Rolls : MHStep(rx, ry, roll)
    \/ MHFrame
    \/ MHToggleRun
    \/ \E s \in 1..3 : MHSetSpeed(s)
    \/ \E s \in SigmaValues : MHSetProposalSigma(s)
    \/ \E rx \in RandDraws, ry \in RandDrawsY : handleManualPropose(rx, ry)
    \/ \E roll \in Rolls : handleManualDecide(roll)
    \/ MHReset

----------------------------------------------------------------------------
(* Gibbs sampler: discretisation and bounds *)

GibbsScale == 100              \* coordinates and rho are multiples of 0.01
RhoInit == 80                  \* useState(0.8)
RhoValues == {0, 60, 80}       \* slider positions 0, 0.6 and 0.8
ZValues == {0 - 1, 0, 1}       \* Box-Muller variates -1, 0, 1
MaxGibbsSteps == 4             \* Gibbs steps explored between two resets

GibbsStart == Pos(0 - 2 * GibbsScale, 0 - 2 * GibbsScale)

\* Math.sqrt(1 - rho * rho), exact for the slider positions used
CondStd(r) == IF r = 0 THEN 100 ELSE IF r = 60 THEN 80 ELSE IF r = 80 THEN 60 ELSE 0

\* a * b / GibbsScale rounded to the grid (towards minus infinity)
MulScaled(a, b) == (a * b) \div GibbsScale

\* setTurn('Y') in both branches: the turn never goes back to 'X'
FlipTurnStuck(t) == "Y"

\* setTurn('Y') after sampling X, setTurn('X') after sampling Y
FlipTurn(t) == IF t = "X" THEN "Y" ELSE "X"

\* Both coordinates sampled in one step, whatever the turn
GibbsNewPosBoth(r, p, t, z) ==
    Pos(MulScaled(r, p.y) + z * CondStd(r), MulScaled(r, p.x) + z * CondStd(r))

\* mean + z * sd for the coordinate whose turn it is, the other one copied
GibbsNewPos(r, p, t, z) ==
    IF t = "X"
      THEN Pos(MulScaled(r, p.y) + z * CondStd(r), p.y)
      ELSE Pos(p.x, MulScaled(r, p.x) + z * CondStd(r))

(* Gibbs sampler: initial state *)

GibbsInit ==
    /\ rho = RhoInit
    /\ gibbsPosition = GibbsStart
    /\ gibbsHistory = <<>>
    /\ turn = "Y"
    /\ gibbsIsRunning = FALSE
    /\ gibbsSpeed = 1
    /\ gibbsPositionRef = GibbsStart
    /\ turnRef = "Y"
    /\ rhoRef = RhoInit
    /\ gibbsOp = [kind |-> "none", prev |-> "none", sinceRho |-> 2]

(* Gibbs sampler: actions *)

\* The step with setHistory(h => [...h, newPos])
GibbsStepBodyAppendsNew(z, auto) ==
    /\ Len(gibbsHistory) < MaxGibbsSteps
    /\ LET currentRho == rhoRef
           currentPosition == gibbsPositionRef
           currentTurn == turnRef
           newPos == GibbsNewPos(currentRho, currentPosition, currentTurn, z)
       IN  /\ turn' = FlipTurn(currentTurn)
           /\ gibbsHistory' = Append(gibbsHistory, newPos)
           /\ gibbsPosition' = newPos
           /\ gibbsPositionRef' = newPos
           /\ turnRef' = turn'
           /\ gibbsOp' = [kind |-> "step", auto |-> auto,
                          sampled |-> currentTurn,
                          prev |-> IF gibbsOp.kind = "step"
                                     THEN gibbsOp.sampled ELSE gibbsOp.prev,
                          usedRho |-> currentRho, usedPos |-> currentPosition,
                          sinceRho |-> Min(gibbsOp.sinceRho + 1, 2)]
    /\ UNCHANGED <<rho, gibbsIsRunning, gibbsSpeed, rhoRef>>
    /\ GibbsOnly

\* step(), followed by the render that copies position and turn to the refs
GibbsStepBody(z, auto) ==
    /\ Len(gibbsHistory) < MaxGibbsSteps
    /\ LET currentRho == rhoRef
           currentPosition == gibbsPositionRef
           currentTurn == turnRef
           newPos == GibbsNewPos(currentRho, currentPosition, currentTurn, z)
       IN  /\ turn' = FlipTurn(currentTurn)
           /\ gibbsHistory' = Append(gibbsHistory, currentPosition)
           /\ gibbsPosition' = newPos
           /\ gibbsPositionRef' = newPos
           /\ turnRef' = turn'
           /\ gibbsOp' = [kind |-> "step", auto |-> auto,
                          sampled |-> currentTurn,
                          prev |-> IF gibbsOp.kind = "step"
                                     THEN gibbsOp.sampled ELSE gibbsOp.prev,
                          usedRho |-> currentRho, usedPos |-> currentPosition,
                          sinceRho |-> Min(gibbsOp.sinceRho + 1, 2)]
    /\ UNCHANGED <<rho, gibbsIsRunning, gibbsSpeed, rhoRef>>
    /\ GibbsOnly

\* Button "Step" (disabled={isRunning})
GibbsStepClick(z) ==
    /\ ~gibbsIsRunning
    /\ GibbsStepBody(z, FALSE)

\* setInterval callback of the auto mode effect
GibbsTick(z) ==
    /\ gibbsIsRunning
    /\ GibbsStepBody(z, TRUE)

\* reset() without setTurn('Y')
resetKeepsTurn ==
    /\ gibbsIsRunning' = FALSE
    /\ gibbsHistory' = <<>>
    /\ gibbsPosition' = GibbsStart
    /\ gibbsPositionRef' = GibbsStart
    /\ UNCHANGED <<turn, turnRef>>

\* reset(), followed by the render that copies position and turn to the refs
reset ==
    /\ gibbsIsRunning' = FALSE
    /\ gibbsHistory' = <<>>
    /\ gibbsPosition' = GibbsStart
    /\ turn' = "Y"
    /\ gibbsPositionRef' = GibbsStart
    /\ turnRef' = "Y"

\* Reset button
GibbsReset ==
    /\ reset
    /\ gibbsOp' = [kind |-> "reset", prev |-> "none", sinceRho |-> gibbsOp.sinceRho]
    /\ UNCHANGED <<rho, gibbsSpeed, rhoRef>>
    /\ GibbsOnly

\* Correlation slider: setRho(value); reset()
GibbsSetRho(r) ==
    /\ r # rho
    /\ rho' = r
    /\ rhoRef' = r
    /\ reset
    /\ gibbsOp' = [kind |-> "rho", prev |-> "none", sinceRho |-> 0]
    /\ UNCHANGED gibbsSpeed
    /\ GibbsOnly

\* Play / Pause button: the auto mode effect sets or clears the interval
GibbsToggleRun ==
    /\ gibbsIsRunning' = ~gibbsIsRunning
    /\ gibbsOp' = [kind |-> "toggle", prev |-> IF gibbsOp.kind = "step"
                                              THEN gibbsOp.sampled ELSE gibbsOp.prev,
                   sinceRho |-> gibbsOp.sinceRho]
    /\ UNCHANGED <<rho, gibbsPosition, gibbsHistory, turn, gibbsSpeed,
                   gibbsPositionRef, turnRef, rhoRef>>
    /\ GibbsOnly

\* Speed selector: the auto mode effect restarts the interval
GibbsSetSpeed(s) ==
    /\ s # gibbsSpeed
    /\ gibbsSpeed' = s
    /\ gibbsOp' = [kind |-> "speed", prev |-> IF gibbsOp.kind = "step"
                                             THEN gibbsOp.sampled ELSE gibbsOp.prev,
                   sinceRho |-> gibbsOp.sinceRho]
    /\ UNCHANGED <<rho, gibbsPosition, gibbsHistory, turn, gibbsIsRunning,
                   gibbsPositionRef, turnRef, rhoRef>>
    /\ GibbsOnly

GibbsNext ==
    \/ \E z \in ZValues : GibbsStepClick(z)
    \/ \E z \in ZValues : GibbsTick(z)
    \/ GibbsReset
    \/ \E r \in RhoValues : GibbsSetRho(r)
    \/ GibbsToggleRun
    \/ \E s \in 1..3 : GibbsSetSpeed(s)

----------------------------------------------------------------------------
(* HMC: discretisation and bounds *)

HScale == 1000                 \* positions, momenta, energies, dt in 1/1000
DtInit == 15                   \* useState(0.015)
DtValues == {250}              \* slider position 0.25
DonutR == 5 * HScale           \* R = targetR = 5
GentleSpeed == 500             \* speed = 0.5
FlickScale == 25               \* 0.025 per pixel
mass == 1                      \* mass = 1.0
EnergyKeep == 1                \* argument of hist.slice(-100), scaled down
MaxPath == 2                   \* leapfrog steps explored per trajectory
MaxSamples == 2                \* trajectories explored per run
Pixels == {Pos(350, 300), Pos(310, 300)}  \* mouse positions used for drags

NoDrag == [none |-> TRUE]

HMCStart == [q |-> Pos(3 * HScale, 0), p |-> Pos(0, 0), path |-> <<>>]

\* a / b rounded towards zero
Quot(a, b) == IF a >= 0 THEN a \div b ELSE 0 - ((0 - a) \div b)

\* Bisection for the integer square root of n between lo and hi
SqrtSearch[n \in Nat, lo \in Nat, hi \in Nat] ==
    IF lo >= hi THEN lo
    ELSE LET mid == (lo + hi + 1) \div 2
         IN  IF mid * mid <= n THEN SqrtSearch[n, mid, hi]
                               ELSE SqrtSearch[n, lo, mid - 1]

\* Math.sqrt on the fixed-point grid
ISqrt(n) == SqrtSearch[n, 0, 46340]

\* Math.sqrt(x*x + y*y) for coordinates in 1/1000
Radius(x, y) == ISqrt(x * x + y * y)

\* The body of donutGradient for r = Math.sqrt(x*x + y*y):
\* (r - targetR) * (x/r, y/r), and (0,0) at r = 0
DonutGradientAt[x \in Int, y \in Int, r \in Nat] ==
    IF r = 0 THEN [dx |-> 0, dy |-> 0]
    ELSE [dx |-> Quot((r - DonutR) * x, r), dy |-> Quot((r - DonutR) * y, r)]

donutGradient(x, y) == DonutGradientAt[x, y, Radius(x, y)]

\* donutPotential of mathUtils, whose gradient donutGradient is:
\* 0.5 * Math.pow(r - targetR, 2)
donutPotential(x, y) ==
    LET d == Radius(x, y) - DonutR IN Quot(d * d, 2 * HScale)

\* potentialEnergy of ModuleHMC: Math.pow(r - R, 2)
potentialEnergy(x, y) ==
    LET d == Radius(x, y) - DonutR IN Quot(d * d, HScale)

\* kineticEnergy: (px*px + py*py) / (2*m)
kineticEnergy(px, py, m) == Quot(px * px + py * py, 2 * m * HScale)

\* A leapfrog step whose second half-step reuses the gradient at the old
\* position
LeapfrogStaleGradient(prev, d) ==
    LET grad1 == donutGradient(prev.q.x, prev.q.y)
        px1 == prev.p.x - Quot(d * grad1.dx, 2 * HScale)
        py1 == prev.p.y - Quot(d * grad1.dy, 2 * HScale)
        qx == prev.q.x + Quot(d * px1, mass * HScale)
        qy == prev.q.y + Quot(d * py1, mass * HScale)
        px == px1 - Quot(d * grad1.dx, 2 * HScale)
        py == py1 - Quot(d * grad1.dy, 2 * HScale)
    IN  [q |-> Pos(qx, qy), p |-> Pos(px, py),
         path |-> Append(prev.path, Pos(qx, qy))]

\* The updater of stepPhysics: one leapfrog step of size d
Leapfrog(prev, d) ==
    LET grad1 == donutGradient(prev.q.x, prev.q.y)
        px1 == prev.p.x - Quot(d * grad1.dx, 2 * HScale)
        py1 == prev.p.y - Quot(d * grad1.dy, 2 * HScale)
        qx == prev.q.x + Quot(d * px1, mass * HScale)
        qy == prev.q.y + Quot(d * py1, mass * HScale)
        grad2 == donutGradient(qx, qy)
        px == px1 - Quot(d * grad2.dx, 2 * HScale)
        py == py1 - Quot(d * grad2.dy, 2 * HScale)
    IN  [q |-> Pos(qx, qy), p |-> Pos(px, py),
         path |-> Append(prev.path, Pos(qx, qy))]

\* The {U, K, H} entry stepPhysics records for the stepped particle
EnergyEntry(pt) ==
    LET U == potentialEnergy(pt.q.x, pt.q.y)
        K == kineticEnergy(pt.p.x, pt.p.y, mass)
    IN  [U |-> U, K |-> K, H |-> U + K]

\* useEffect(() => { particleRef.current = particle }, [particle]): the
\* value the ref holds once the render of the particle has committed
RenderedParticle(new, old) == new

(* HMC: initial state *)

HMCInit ==
    /\ particle = HMCStart
    /\ isSimulating = FALSE
    /\ samples = <<>>
    /\ dt = DtInit
    /\ energyHistory = <<>>
    /\ initialEnergy = <<>>
    /\ particleRef = HMCStart
    /\ draggingRef = NoDrag
    /\ rafPending = FALSE
    /\ timerPending = FALSE
    /\ hmcPc = "idle"
    /\ hmcOp = [kind |-> "none", lastQ |-> NoDrag]

(* HMC: actions *)

\* stepPhysics(): the particle and energy updates it queues
StepPhysics ==
    /\ particle' = Leapfrog(particle, dt)
    /\ energyHistory' = Append(SliceLast(energyHistory, EnergyKeep),
                               EnergyEntry(particle'))

\* A launch whose setParticle keeps the path of the trajectory before
LaunchKeepsPath(px, py) ==
    /\ particle' = [particle EXCEPT !.p = Pos(px, py)]
    /\ initialEnergy' = <<potentialEnergy(particleRef.q.x, particleRef.q.y)
                            + kineticEnergy(px, py, mass)>>
    /\ energyHistory' = <<>>
    /\ isSimulating' = TRUE
    /\ particleRef' = RenderedParticle(particle', particleRef)
    /\ hmcPc' = "effect"
    /\ hmcOp' = [kind |-> "launch", lastQ |-> NoDrag]
    /\ UNCHANGED <<samples, dt, rafPending, timerPending>>

\* The launch shared by the drag release and the gentle launch button
Launch(px, py) ==
    /\ particle' = [particle EXCEPT !.p = Pos(px, py), !.path = <<>>]
    /\ initialEnergy' = <<potentialEnergy(particleRef.q.x, particleRef.q.y)
                            + kineticEnergy(px, py, mass)>>
    /\ energyHistory' = <<>>
    /\ isSimulating' = TRUE
    /\ particleRef' = RenderedParticle(particle', particleRef)
    /\ hmcPc' = "effect"
    /\ hmcOp' = [kind |-> "launch", lastQ |-> NoDrag]
    /\ UNCHANGED <<samples, dt, rafPending, timerPending>>

\* onMouseDown of the canvas
handleMouseDown(pt) ==
    /\ hmcPc = "idle"
    /\ IF isSimulating
         THEN UNCHANGED draggingRef
         ELSE draggingRef' = pt
    /\ hmcOp' = [kind |-> "down", lastQ |-> hmcOp.lastQ]
    /\ UNCHANGED <<particle, isSimulating, samples, dt, energyHistory,
                   initialEnergy, particleRef, rafPending, timerPending, hmcPc>>
    /\ HMCOnly

\* handleMouseUp without the isSimulating test of its guard
handleMouseUpAlways(pt) ==
    /\ hmcPc = "idle"
    /\ Len(samples) < MaxSamples
    /\ IF draggingRef = NoDrag
         THEN /\ hmcOp' = [kind |-> "up", lastQ |-> hmcOp.lastQ]
              /\ UNCHANGED <<particle, isSimulating, samples, dt,
                             energyHistory, initialEnergy, particleRef,
                             draggingRef, rafPending, timerPending, hmcPc>>
         ELSE /\ Launch((draggingRef.x - pt.x) * FlickScale,
                        (draggingRef.y - pt.y) * FlickScale)
              /\ draggingRef' = NoDrag
    /\ HMCOnly

\* onMouseUp of the canvas
handleMouseUp(pt) ==
    /\ hmcPc = "idle"
    /\ Len(samples) < MaxSamples
    /\ IF draggingRef = NoDrag \/ isSimulating
         THEN /\ hmcOp' = [kind |-> "up", lastQ |-> hmcOp.lastQ]
              /\ UNCHANGED <<particle, isSimulating, samples, dt,
                             energyHistory, initialEnergy, particleRef,
                             draggingRef, rafPending, timerPending, hmcPc>>
         ELSE /\ Launch((draggingRef.x - pt.x) * FlickScale,
                        (draggingRef.y - pt.y) * FlickScale)
              /\ draggingRef' = NoDrag
    /\ HMCOnly

\* onClick of the gentle launch button
GentleLaunch ==
    /\ hmcPc = "idle"
    /\ Len(samples) < MaxSamples
    /\ IF isSimulating
         THEN /\ hmcOp' = [kind |-> "gentle", lastQ |-> hmcOp.lastQ]
              /\ UNCHANGED <<particle, isSimulating, samples, dt,
                             energyHistory, initialEnergy, particleRef,
                             rafPending, timerPending, hmcPc>>
         ELSE LET q == particleRef.q
                  r == Radius(q.x, q.y)
              IN  Launch(Quot((0 - q.y) * GentleSpeed, r),
                         Quot(q.x * GentleSpeed, r))
    /\ UNCHANGED draggingRef
    /\ HMCOnly

\* The simulation effect runs: loop() steps once and requests a frame, and
\* the 3 s timeout is set.  The timeout is due 3 s after this step, so the
\* render of the step is carried out before it can fire.
HMCEffect ==
    /\ hmcPc = "effect"
    /\ StepPhysics
    /\ particleRef' = RenderedParticle(particle', particleRef)
    /\ rafPending' = TRUE
    /\ timerPending' = TRUE
    /\ hmcPc' = "idle"
    /\ hmcOp' = [kind |-> "step", lastQ |-> particle'.q]
    /\ UNCHANGED <<isSimulating, samples, dt, initialEnergy, draggingRef>>
    /\ HMCOnly

\* requestAnimationFrame fires loop(): the step is queued, and its render is
\* left to a later task
HMCFrame ==
    /\ hmcPc = "idle"
    /\ rafPending
    /\ Len(particle.path) < MaxPath
    /\ StepPhysics
    /\ hmcPc' = "render"
    /\ hmcOp' = [kind |-> "step", lastQ |-> particle'.q]
    /\ UNCHANGED <<isSimulating, samples, dt, initialEnergy, particleRef,
                   draggingRef, rafPending, timerPending>>
    /\ HMCOnly

\* The render of a frame's step commits and its effects run
HMCRender ==
    /\ hmcPc = "render"
    /\ particleRef' = RenderedParticle(particle, particleRef)
    /\ hmcPc' = "idle"
    /\ hmcOp' = [kind |-> "render", lastQ |-> hmcOp.lastQ]
    /\ UNCHANGED <<particle, isSimulating, samples, dt, energyHistory,
                   initialEnergy, draggingRef, rafPending, timerPending>>
    /\ HMCOnly

\* The 3 s timeout fires, before or after the render of the newest frame;
\* the render after it runs the effect clean-up and the ref sync
HMCTimeout ==
    /\ hmcPc \in {"idle", "render"}
    /\ timerPending
    /\ isSimulating' = FALSE
    /\ rafPending' = FALSE
    /\ samples' = Append(samples, particleRef.q)
    /\ timerPending' = FALSE
    /\ particleRef' = RenderedParticle(particle, particleRef)
    /\ hmcPc' = "idle"
    /\ hmcOp' = [kind |-> "timeout", lastQ |-> hmcOp.lastQ]
    /\ UNCHANGED <<particle, dt, energyHistory, initialEnergy, draggingRef>>
    /\ HMCOnly

\* Step size slider.  stepPhysics depends on dt, and the simulation effect
\* on stepPhysics: while simulating the effect is cleaned up and run again.
HMCSetDt(d) ==
    /\ hmcPc = "idle"
    /\ d # dt
    /\ isSimulating => Len(particle.path) < MaxPath
    /\ dt' = d
    /\ IF isSimulating
         THEN /\ rafPending' = FALSE
              /\ timerPending' = FALSE
              /\ hmcPc' = "effect"
         ELSE UNCHANGED <<rafPending, timerPending, hmcPc>>
    /\ hmcOp' = [kind |-> "dt", lastQ |-> hmcOp.lastQ]
    /\ UNCHANGED <<particle, isSimulating, samples, energyHistory,
                   initialEnergy, particleRef, draggingRef>>
    /\ HMCOnly

\* The reset with a simulation effect whose clean-up does not clear the
\* timeout
HMCResetKeepsTimer ==
    /\ hmcPc = "idle"
    /\ isSimulating' = FALSE
    /\ rafPending' = FALSE
    /\ samples' = <<>>
    /\ particle' = HMCStart
    /\ energyHistory' = <<>>
    /\ initialEnergy' = <<>>
    /\ particleRef' = RenderedParticle(particle', particleRef)
    /\ timerPending' = timerPending
    /\ hmcOp' = [kind |-> "reset", lastQ |-> NoDrag, running |-> isSimulating]
    /\ UNCHANGED <<dt, draggingRef, hmcPc>>
    /\ HMCOnly

\* Reset button; the render after it runs the effect clean-up
HMCReset ==
    /\ hmcPc = "idle"
    /\ isSimulating' = FALSE
    /\ rafPending' = FALSE
    /\ samples' = <<>>
    /\ particle' = HMCStart
    /\ energyHistory' = <<>>
    /\ initialEnergy' = <<>>
    /\ particleRef' = RenderedParticle(particle', particleRef)
    /\ timerPending' = FALSE
    /\ hmcOp' = [kind |-> "reset", lastQ |-> NoDrag, running |-> isSimulating]
    /\ UNCHANGED <<dt, draggingRef, hmcPc>>
    /\ HMCOnly

HMCNext ==
    \/ \E pt \in Pixels : handleMouseDown(pt)
    \/ \E pt \in Pixels : handleMouseUp(pt)
    \/ GentleLaunch
    \/ HMCEffect
    \/ HMCFrame
    \/ HMCRender
    \/ HMCTimeout
    \/ \E d \in DtValues : HMCSetDt(d)
    \/ HMCReset

----------------------------------------------------------------------------
(* Variational inference: discretisation and bounds *)

VScale == 1000                 \* mu, sigma and gradients in 1/1000
MuInit == 3500                 \* useState(3.5)
VISigmaInit == 1500            \* useState(1.5)
SigmaFloor == 300              \* Math.max(0.3, ...)
LearningRate == 50             \* learningRate = 0.05
ConvergedBelow == 10           \* |grad| < 0.01
MuSlider == {0, 8000}          \* slider positions 0 and 8
SigmaSlider == {300, 3000}     \* slider positions 0.3 (min) and 3 (max)
\* Values of the numerical gradients grad_mu and grad_sigma
GradValues == {0 - 40000, 5, 10, 3000}
MaxVISteps == 2                \* optimization steps explored between two resets

Abs(a) == IF a < 0 THEN 0 - a ELSE a

\* mu + learningRate * grad_mu
NewMu(m, g) == m + Quot(LearningRate * g, VScale)

\* sigma + learningRate * grad_sigma, without the floor
NewSigmaUnfloored(sg, g) == sg + Quot(LearningRate * g, VScale)

\* Math.max(0.3, sigma + learningRate * grad_sigma)
NewSigma(sg, g) == Max(SigmaFloor, sg + Quot(LearningRate * g, VScale))

\* Math.abs(grad_mu) < 0.01 || Math.abs(grad_sigma) < 0.01: one small
\* gradient is enough
ConvergedEither(gm, gs) ==
    Abs(gm) < ConvergedBelow \/ Abs(gs) < ConvergedBelow

\* Math.abs(grad_mu) < 0.01 && Math.abs(grad_sigma) < 0.01
Converged(gm, gs) == Abs(gm) < ConvergedBelow /\ Abs(gs) < ConvergedBelow

(* Variational inference: initial state *)

VIInit ==
    /\ mu = MuInit
    /\ sigma = VISigmaInit
    /\ isOptimizing = FALSE
    /\ optimizationHistory = <<>>
    /\ viSteps = 0
    /\ viOp = [kind |-> "none"]

(* Variational inference: actions *)

\* The step with the history entry taken from mu and sigma before the update
optimizationStepLogsOld(gm, gs) ==
    /\ isOptimizing
    /\ viSteps < MaxVISteps
    /\ viSteps' = viSteps + 1
    /\ mu' = NewMu(mu, gm)
    /\ sigma' = NewSigma(sigma, gs)
    /\ optimizationHistory' =
           Append(optimizationHistory, [mu |-> mu, sigma |-> sigma])
    /\ isOptimizing' = ~Converged(gm, gs)
    /\ viOp' = [kind |-> "step", gm |-> gm, gs |-> gs,
                raw |-> sigma + Quot(LearningRate * gs, VScale)]
    /\ VIOnly

\* A tick of setInterval(optimizationStep, 100) and the render after it;
\* gm and gs are the numerical gradients the step computes
optimizationStep(gm, gs) ==
    /\ isOptimizing
    /\ viSteps < MaxVISteps
    /\ viSteps' = viSteps + 1
    /\ mu' = NewMu(mu, gm)
    /\ sigma' = NewSigma(sigma, gs)
    /\ optimizationHistory' =
           Append(optimizationHistory, [mu |-> mu', sigma |-> sigma'])
    /\ isOptimizing' = ~Converged(gm, gs)
    /\ viOp' = [kind |-> "step", gm |-> gm, gs |-> gs,
                raw |-> sigma + Quot(LearningRate * gs, VScale)]
    /\ VIOnly

\* Reset button
handleReset ==
    /\ mu' = MuInit
    /\ sigma' = VISigmaInit
    /\ isOptimizing' = FALSE
    /\ optimizationHistory' = <<>>
    /\ viSteps' = 0
    /\ viOp' = [kind |-> "reset"]
    /\ VIOnly

\* Optimize / pause button
toggleOptimization ==
    /\ optimizationHistory' =
           IF ~isOptimizing THEN <<>> ELSE optimizationHistory
    /\ isOptimizing' = ~isOptimizing
    /\ viOp' = [kind |-> "toggle"]
    /\ UNCHANGED <<mu, sigma, viSteps>>
    /\ VIOnly

\* mu slider: disabled, and ignored, while optimizing
VISetMu(m) ==
    /\ ~isOptimizing
    /\ mu' = m
    /\ viOp' = [kind |-> "mu"]
    /\ UNCHANGED <<sigma, isOptimizing, optimizationHistory, viSteps>>
    /\ VIOnly

\* sigma slider (min 0.3, max 3): disabled, and ignored, while optimizing
VISetSigma(sg) ==
    /\ ~isOptimizing
    /\ sigma' = sg
    /\ viOp' = [kind |-> "sigma"]
    /\ UNCHANGED <<mu, isOptimizing, optimizationHistory, viSteps>>
    /\ VIOnly

VINext ==
    \/ \E gm \in GradValues, gs \in GradValues : optimizationStep(gm, gs)
    \/ handleReset
    \/ toggleOptimization
    \/ \E m \in MuSlider : VISetMu(m)
    \/ \E sg \in SigmaSlider : VISetSigma(sg)

----------------------------------------------------------------------------
(* Conjugate module (ModuleAnalytical) with the tutorial state of the     *)
(* ProgressProvider. Means and standard deviations of the Normal model   *)
(* are kept in hundredths; the badges SENSOR_CALIB and BUS_WAIT are only *)
(* displayed and are not kept.                                           *)

AScale == 100
LikelihoodVar == 25          \* likelihoodSigma = 5, squared
AlphaValues == {2, 5}        \* slider positions tried (range 1..20)
BetaValues == {2, 7}
PriorMeanValues == {20, 0}   \* slider positions tried (range 0..40)
PriorStdValues == {5, 1}     \* slider positions tried (range 1..10)
GammaAlphaValues == {2, 10}  \* slider positions tried (range 1..10)
GammaBetaValues == {1, 3}
Readings == {2250, 2700}     \* 25 + (Math.random() - 0.5) * 5, in hundredths
BusDraws == {2, 5}           \* Math.floor(Math.random() * 4) + 2
MaxFlips == 3
MaxReadings == 1
MaxBusCounts == 1

Modes == {"BETA_BINOMIAL", "NORMAL_NORMAL", "GAMMA_POISSON"}

RECURSIVE SumSeq(_)
SumSeq(s) == IF s = <<>> THEN 0 ELSE s[1] + SumSeq(Tail(s))

CountOf(s, v) == Cardinality({i \in 1..Len(s) : s[i] = v})

BetaPosteriorSwapped(a, b, h, t) == [alpha |-> a + t, beta |-> b + h]

\* alphaPost, betaPost of the data memo
BetaPosterior(a, b, h, t) == [alpha |-> a + h, beta |-> b + t]

\* postMean, postStd of the data memo: with priorPrec = 1/s^2 and
\* dataPrec = n/25, postVar = 25 s^2 / (25 + n s^2) and
\* postMean = (25 m + s^2 sum) / (25 + n s^2)
NormalPosterior(m, s, d) ==
    LET n == Len(d)
        den == LikelihoodVar + n * s * s
    IN IF n > 0
         THEN [mean |-> Quot(LikelihoodVar * m * AScale + s * s * SumSeq(d), den),
               std |-> ISqrt(Quot(LikelihoodVar * s * s * AScale * AScale, den))]
         ELSE [mean |-> m * AScale, std |-> s * AScale]

\* postAlpha, postBeta of the data memo
GammaPosterior(a, b, c) == [alpha |-> a + SumSeq(c), beta |-> b + Len(c)]

\* The effect that starts the tutorial, run after every render
TutorialEffect(m, unlocked, step) ==
    IF m = "BETA_BINOMIAL" /\ ~unlocked /\ step = 0 THEN 1 ELSE step

\* advanceTutorial called from a closure that saw tutorialStep = seen
AdvancedStep(seen, cur) == IF seen = 3 THEN 0 ELSE cur + 1

ANInit ==
    /\ mode = "BETA_BINOMIAL"
    /\ alphaPrior = 2
    /\ betaPrior = 2
    /\ heads = 0
    /\ tails = 0
    /\ isFlipping = FALSE
    /\ flipTimers = <<>>
    /\ priorMean = 20
    /\ priorStd = 5
    /\ sensorData = <<>>
    /\ gammaAlpha = 2
    /\ gammaBeta = 1
    /\ busCounts = <<>>
    /\ firstFlipUnlocked = FALSE
    /\ tutorialStep = TutorialEffect("BETA_BINOMIAL", FALSE, 0)
    /\ flipLog = <<>>
    /\ anOp = NoOp

KeepsAllOnSwitch(m, field, old, empty) == old

\* The mode buttons reset the data of the mode they select, and only that
KeptOnSwitch(m, field, old, empty) == IF m = field THEN empty ELSE old

SetMode(m) ==
    /\ mode' = m
    /\ heads' = KeptOnSwitch(m, "BETA_BINOMIAL", heads, 0)
    /\ tails' = KeptOnSwitch(m, "BETA_BINOMIAL", tails, 0)
    /\ flipLog' = KeptOnSwitch(m, "BETA_BINOMIAL", flipLog, <<>>)
    /\ sensorData' = KeptOnSwitch(m, "NORMAL_NORMAL", sensorData, <<>>)
    /\ busCounts' = KeptOnSwitch(m, "GAMMA_POISSON", busCounts, <<>>)
    /\ tutorialStep' = TutorialEffect(m, firstFlipUnlocked, tutorialStep)
    /\ anOp' = [kind |-> "mode", to |-> m]
    /\ UNCHANGED <<alphaPrior, betaPrior, isFlipping, flipTimers, priorMean,
                   priorStd, gammaAlpha, gammaBeta, firstFlipUnlocked>>
    /\ ANOnly

\* The Flip button is shown in the coin mode and disabled while isFlipping
handleFlip ==
    /\ mode = "BETA_BINOMIAL"
    /\ ~isFlipping
    /\ heads + tails + Len(flipTimers) < MaxFlips
    /\ tutorialStep' = IF tutorialStep = 2
                         THEN AdvancedStep(tutorialStep, tutorialStep)
                         ELSE tutorialStep
    /\ isFlipping' = TRUE
    /\ flipTimers' = Append(flipTimers, tutorialStep)
    /\ anOp' = [kind |-> "flip"]
    /\ UNCHANGED <<mode, alphaPrior, betaPrior, heads, tails, priorMean,
                   priorStd, sensorData, gammaAlpha, gammaBeta, busCounts,
                   firstFlipUnlocked, flipLog>>
    /\ ANOnly

\* The 400 ms timeout of handleFlip; coin is the outcome of Math.random() > 0.5
FlipTimeout(coin) ==
    /\ flipTimers # <<>>
    /\ LET seen == Head(flipTimers)
           step == IF seen = 3 THEN AdvancedStep(seen, tutorialStep)
                               ELSE tutorialStep
           unlocked == firstFlipUnlocked \/ seen = 3
       IN /\ heads' = IF coin = "H" THEN heads + 1 ELSE heads
          /\ tails' = IF coin = "H" THEN tails ELSE tails + 1
          /\ isFlipping' = FALSE
          /\ flipTimers' = Tail(flipTimers)
          /\ firstFlipUnlocked' = unlocked
          /\ tutorialStep' = TutorialEffect(mode, unlocked, step)
    /\ flipLog' = Append(flipLog, coin)
    /\ anOp' = [kind |-> "landed", coin |-> coin]
    /\ UNCHANGED <<mode, alphaPrior, betaPrior, priorMean, priorStd,
                   sensorData, gammaAlpha, gammaBeta, busCounts>>
    /\ ANOnly

\* The Read Sensor button is shown in the sensor mode
handleAddSensorData(reading) ==
    /\ mode = "NORMAL_NORMAL"
    /\ Len(sensorData) < MaxReadings
    /\ sensorData' = Append(sensorData, reading)
    /\ anOp' = [kind |-> "sensor"]
    /\ UNCHANGED <<mode, alphaPrior, betaPrior, heads, tails, isFlipping,
                   flipTimers, priorMean, priorStd, gammaAlpha, gammaBeta,
                   busCounts, tutorialStep, firstFlipUnlocked, flipLog>>
    /\ ANOnly

\* The Wait 1 Hour button is shown in the bus mode
handleAddBusData(count) ==
    /\ mode = "GAMMA_POISSON"
    /\ Len(busCounts) < MaxBusCounts
    /\ busCounts' = Append(busCounts, count)
    /\ anOp' = [kind |-> "bus"]
    /\ UNCHANGED <<mode, alphaPrior, betaPrior, heads, tails, isFlipping,
                   flipTimers, priorMean, priorStd, sensorData, gammaAlpha,
                   gammaBeta, tutorialStep, firstFlipUnlocked, flipLog>>
    /\ ANOnly

\* The Reset Data button
ResetData ==
    /\ heads' = 0
    /\ tails' = 0
    /\ flipLog' = <<>>
    /\ sensorData' = <<>>
    /\ busCounts' = <<>>
    /\ anOp' = [kind |-> "resetData"]
    /\ UNCHANGED <<mode, alphaPrior, betaPrior, isFlipping, flipTimers,
                   priorMean, priorStd, gammaAlpha, gammaBeta, tutorialStep,
                   firstFlipUnlocked>>
    /\ ANOnly

\* The two prior sliders of the coin mode
SetBetaPrior(a, b) ==
    /\ mode = "BETA_BINOMIAL"
    /\ alphaPrior' = a
    /\ betaPrior' = b
    /\ <<a, b>> # <<alphaPrior, betaPrior>>
    /\ anOp' = [kind |-> "prior"]
    /\ UNCHANGED <<mode, heads, tails, isFlipping, flipTimers, priorMean,
                   priorStd, sensorData, gammaAlpha, gammaBeta, busCounts,
                   tutorialStep, firstFlipUnlocked, flipLog>>
    /\ ANOnly

\* The two prior sliders of the sensor mode
SetNormalPrior(m, s) ==
    /\ mode = "NORMAL_NORMAL"
    /\ priorMean' = m
    /\ priorStd' = s
    /\ <<m, s>> # <<priorMean, priorStd>>
    /\ anOp' = [kind |-> "prior"]
    /\ UNCHANGED <<mode, alphaPrior, betaPrior, heads, tails, isFlipping,
                   flipTimers, sensorData, gammaAlpha, gammaBeta, busCounts,
                   tutorialStep, firstFlipUnlocked, flipLog>>
    /\ ANOnly

\* The two prior sliders of the bus mode
SetGammaPrior(a, b) ==
    /\ mode = "GAMMA_POISSON"
    /\ gammaAlpha' = a
    /\ gammaBeta' = b
    /\ <<a, b>> # <<gammaAlpha, gammaBeta>>
    /\ anOp' = [kind |-> "prior"]
    /\ UNCHANGED <<mode, alphaPrior, betaPrior, heads, tails, isFlipping,
                   flipTimers, priorMean, priorStd, sensorData, busCounts,
                   tutorialStep, firstFlipUnlocked, flipLog>>
    /\ ANOnly

ANNext ==
    \/ \E m \in Modes : SetMode(m)
    \/ handleFlip
    \/ \E coin \in {"H", "T"} : FlipTimeout(coin)
    \/ \E reading \in Readings : handleAddSensorData(reading)
    \/ \E count \in BusDraws : handleAddBusData(count)
    \/ ResetData
    \/ \E a \in AlphaValues, b \in BetaValues : SetBetaPrior(a, b)
    \/ \E m \in PriorMeanValues, s \in PriorStdValues : SetNormalPrior(m, s)
    \/ \E a \in GammaAlphaValues, b \in GammaBetaValues : SetGammaPrior(a, b)

----------------------------------------------------------------------------
(* App: the module shown is the only one mounted.  A module that is not  *)
(* mounted has no state; its variables hold the values its next mount    *)
(* starts from.                                                          *)

\* The modules with a sampler, and the home page
ModuleTypes == {"HOME", "METROPOLIS", "GIBBS", "HMC", "VARIATIONAL"}

\* The application with module m on screen, freshly mounted
Mounted(m) ==
    /\ MHInit /\ GibbsInit /\ HMCInit /\ VIInit /\ ANInit
    /\ currentModule = m

\* Layout's onModuleChange and ModuleHome's onNavigate: renderModule()
\* returns another element type, so the module shown so far is unmounted
\* (effects cleaned up, state dropped) and module m is mounted afresh
setCurrentModule(m) ==
    /\ m # currentModule
    /\ currentModule' = m
    /\ IF currentModule = "METROPOLIS"
         THEN /\ position' = StartPos
              /\ proposal' = NoProposal
              /\ history' = <<>>
              /\ isRunning' = FALSE
              /\ speed' = 1
              /\ acceptedCount' = 0
              /\ totalCount' = 0
              /\ proposalSigma' = SigmaInit
              /\ lastDecision' = NoDecision
              /\ positionRef' = StartPos
              /\ proposalSigmaRef' = SigmaInit
              /\ burstLeft' = 0
              /\ mhOp' = NoOp
              /\ proposedFrom' = NoProposal
         ELSE UNCHANGED mhVars
    /\ IF currentModule = "GIBBS"
         THEN /\ rho' = RhoInit
              /\ gibbsPosition' = GibbsStart
              /\ gibbsHistory' = <<>>
              /\ turn' = "Y"
              /\ gibbsIsRunning' = FALSE
              /\ gibbsSpeed' = 1
              /\ gibbsPositionRef' = GibbsStart
              /\ turnRef' = "Y"
              /\ rhoRef' = RhoInit
              /\ gibbsOp' = [kind |-> "none", prev |-> "none", sinceRho |-> 2]
         ELSE UNCHANGED gibbsVars
    /\ IF currentModule = "HMC"
         THEN /\ particle' = HMCStart
              /\ isSimulating' = FALSE
              /\ samples' = <<>>
              /\ dt' = DtInit
              /\ energyHistory' = <<>>
              /\ initialEnergy' = <<>>
              /\ particleRef' = HMCStart
              /\ draggingRef' = NoDrag
              /\ rafPending' = FALSE
              /\ timerPending' = FALSE
              /\ hmcPc' = "idle"
              /\ hmcOp' = [kind |-> "none", lastQ |-> NoDrag]
         ELSE UNCHANGED hmcVars
    /\ IF currentModule = "VARIATIONAL"
         THEN /\ mu' = MuInit
              /\ sigma' = VISigmaInit
              /\ isOptimizing' = FALSE
              /\ optimizationHistory' = <<>>
              /\ viSteps' = 0
              /\ viOp' = [kind |-> "none"]
         ELSE UNCHANGED viVars
    /\ UNCHANGED anVars

AppNext ==
    \/ \E m \in ModuleTypes : setCurrentModule(m)
    \/ currentModule = "METROPOLIS" /\ MHNext
    \/ currentModule = "GIBBS" /\ GibbsNext
    \/ currentModule = "HMC" /\ HMCNext
    \/ currentModule = "VARIATIONAL" /\ VINext

----------------------------------------------------------------------------
(* Specifications: the components one at a time, and the application *)

Init == Mounted("HOME")

SpecMH == Mounted("METROPOLIS") /\ [][MHNext]_vars

SpecGibbs == Mounted("GIBBS") /\ [][GibbsNext]_vars

SpecHMC == Mounted("HMC") /\ [][HMCNext]_vars

SpecVI == Mounted("VARIATIONAL") /\ [][VINext]_vars

SpecAN == Mounted("ANALYTICAL") /\ [][ANNext]_vars

SpecApp == Init /\ [][AppNext]_vars

\* A pending flip timeout fires, and the user keeps flipping the coin and
\* pressing Reset Data for as long as the interface lets them
LiveAN ==
    /\ SpecAN
    /\ WF_vars(\E coin \in {"H", "T"} : FlipTimeout(coin))
    /\ WF_vars(handleFlip)
    /\ WF_vars(ResetData)

\* The effect of a render runs in the same task as the render, a scheduled
\* render is carried out, and a timeout that stays pending fires
LiveHMC ==
    SpecHMC /\ WF_vars(HMCEffect) /\ WF_vars(HMCRender) /\ WF_vars(HMCTimeout)

----------------------------------------------------------------------------
(* Claims *)

\* C1 (as stated): every auto step of a burst proposes from, and computes
\* its ratio against, the position produced by the step before it, i.e. the
\* chain position at the time the step runs.
C1_StepSeesPreviousStep == (mhOp.kind = "auto") => mhOp.fresh

\* C2 (as stated): the chain position always lies inside [0,10] x [0,10].
C2_PositionInBox == ~OutOfBounds(position.x, position.y)

\* C3 (as stated): a decision on an in-bounds proposal either moves the
\* position to the proposal and adds 1 to acceptedCount, or leaves position
\* and acceptedCount alone and appends the current position to history.
C3_AcceptRejectEffect ==
    [][ (totalCount' = totalCount + 1 /\ ~mhOp'.oob) =>
          IF mhOp'.acc
            THEN /\ position' = mhOp'.prop
                 /\ acceptedCount' = acceptedCount + 1
            ELSE /\ position' = position
                 /\ acceptedCount' = acceptedCount
                 /\ Len(history') > 0
                 /\ Last(history') = position ]_vars

\* C4: a ratio >= 1 is accepted whatever the draw, and the auto rule
\* (u < ratio) and the manual rule (u < min(1, ratio)) decide alike for every
\* ratio and draw that occurs.
C4_UphillAlwaysAccepted ==
    (mhOp.kind \in {"auto", "manual"}) =>
        /\ mhOp.uphill => (mhOp.oob \/ mhOp.acc)
        /\ (mhOp.kind = "manual" \/ ~mhOp.oob) => (mhOp.acc = mhOp.other)

\* C4 witness: the manual decide accepted an uphill proposal drawn with the
\* largest roll.
C4_Witness ==
    /\ mhOp.kind = "manual"
    /\ mhOp.uphill /\ mhOp.top /\ mhOp.acc

C6_RhoChangeResets ==
    /\ (gibbsOp.kind = "rho") =>
          /\ gibbsPosition = GibbsStart
          /\ gibbsHistory = <<>>
          /\ turn = "Y"
          /\ ~gibbsIsRunning
    /\ (gibbsOp.kind = "step" /\ gibbsOp.sinceRho = 1) =>
          /\ gibbsOp.usedRho = rho
          /\ gibbsOp.usedPos = GibbsStart
          /\ gibbsOp.sampled = "Y"

\* C6 witness: rho was changed in the middle of a chain whose turn was 'X',
\* and the first step after the change has run.
C6_Witness ==
    /\ gibbsOp.kind = "step" /\ gibbsOp.sinceRho = 1
    /\ rho # RhoInit
    /\ gibbsOp.usedRho = rho

\* C7 (as stated): the Metropolis-Hastings and Gibbs histories never hold
\* more entries than the cap.
C7_HistoryBounded ==
    /\ Len(history) <= HistoryKeep
    /\ Len(gibbsHistory) <= HistoryKeep

\* C8 (as stated): a launched trajectory halts (isSimulating becomes false),
\* and the timeout that halts it takes no further leapfrog step and appends
\* exactly one sample, the position produced by the last executed leapfrog
\* step.
C8_TrajectoryHalts ==
    /\ [](isSimulating => <>(~isSimulating))
    /\ [][ (hmcOp'.kind = "timeout") =>
             /\ samples' = Append(samples, hmcOp.lastQ)
             /\ ~isSimulating' /\ ~rafPending' /\ ~timerPending'
             /\ particle' = particle ]_vars

\* C9 (as stated): the energy history never holds more entries than the
\* cap, and holds the most recent entries.
C9_EnergyHistoryBounded == Len(energyHistory) <= EnergyKeep

\* C10: sigma of the variational module is never below 0.3, whatever the
\* gradients an optimization step computes and whatever the sliders and the
\* reset button do.
C10_SigmaFloor == sigma >= SigmaFloor

\* C10 witness: an optimization step whose gradient would have taken sigma
\* below 0.3 has run, and sigma is 0.3.
C10_Witness ==
    /\ viOp.kind = "step"
    /\ viOp.raw < SigmaFloor
    /\ sigma = SigmaFloor

\* C11: an optimization step stops the run exactly when both gradients it
\* computed are below 0.01 in magnitude; otherwise the run goes on, and only
\* the pause button or the reset button ends it.
C11_StopsIffConverged ==
    [][ /\ (viOp'.kind = "step") =>
             (isOptimizing' =
                ~(Abs(viOp'.gm) < ConvergedBelow /\ Abs(viOp'.gs) < ConvergedBelow))
        /\ (isOptimizing /\ ~isOptimizing') =>
             viOp'.kind \in {"step", "toggle", "reset"} ]_vars

\* C11 witness: a step with both gradients below 0.01 has stopped a run
\* that earlier steps with larger gradients had left running.
C11_Witness ==
    /\ viOp.kind = "step"
    /\ Abs(viOp.gm) < ConvergedBelow /\ Abs(viOp.gs) < ConvergedBelow
    /\ ~isOptimizing
    /\ Len(optimizationHistory) >= 2

\* C12: for every prior and every sequence of landed flips the posterior of
\* the coin model is Beta(alphaPrior + heads, betaPrior + tails) with heads
\* and tails the counts of the sequence; updating with any prefix of the
\* sequence and then with the rest gives the posterior of one update with
\* the totals; Beta(2,2) with 7 heads and 3 tails gives Beta(9,5).
C12_BetaAdditive ==
    LET post == BetaPosterior(alphaPrior, betaPrior, heads, tails)
    IN /\ heads = CountOf(flipLog, "H")
       /\ tails = CountOf(flipLog, "T")
       /\ post = [alpha |-> alphaPrior + CountOf(flipLog, "H"),
                  beta |-> betaPrior + CountOf(flipLog, "T")]
       /\ \A i \in 0..Len(flipLog) :
             LET first == SubSeq(flipLog, 1, i)
                 rest == SubSeq(flipLog, i + 1, Len(flipLog))
                 mid == BetaPosterior(alphaPrior, betaPrior,
                                      CountOf(first, "H"), CountOf(first, "T"))
             IN BetaPosterior(mid.alpha, mid.beta,
                              CountOf(rest, "H"), CountOf(rest, "T")) = post
       /\ BetaPosterior(2, 2, 7, 3) = [alpha |-> 9, beta |-> 5]

\* Three flips have landed since the last reset, heads and tails both among
\* them, under a prior moved away from its initial value
C12_Witness ==
    /\ Len(flipLog) = MaxFlips
    /\ heads = 2 /\ tails = 1
    /\ alphaPrior # 2
    /\ anOp.kind = "landed"

\* C13: right after a mode button is pressed the evidence of the selected
\* mode is empty and its posterior parameters equal its prior parameters;
\* the Normal posterior of no readings is the prior.
C13_SwitchEmptiesEvidence ==
    /\ \A m \in PriorMeanValues, s \in PriorStdValues :
          NormalPosterior(m, s, <<>>) = [mean |-> m * AScale, std |-> s * AScale]
    /\ (anOp.kind = "mode") =>
          /\ mode = anOp.to
          /\ mode = "BETA_BINOMIAL" =>
                /\ heads = 0 /\ tails = 0
                /\ BetaPosterior(alphaPrior, betaPrior, heads, tails)
                     = [alpha |-> alphaPrior, beta |-> betaPrior]
          /\ mode = "NORMAL_NORMAL" =>
                /\ sensorData = <<>>
                /\ NormalPosterior(priorMean, priorStd, sensorData)
                     = [mean |-> priorMean * AScale, std |-> priorStd * AScale]
          /\ mode = "GAMMA_POISSON" =>
                /\ busCounts = <<>>
                /\ GammaPosterior(gammaAlpha, gammaBeta, busCounts)
                     = [alpha |-> gammaAlpha, beta |-> gammaBeta]

\* The sensor mode has just been selected again after readings were taken
\* in it and while the other two modes still hold evidence
C13_Witness ==
    /\ anOp.kind = "mode"
    /\ mode = "NORMAL_NORMAL"
    /\ sensorData = <<>>
    /\ heads + tails > 0
    /\ busCounts # <<>>

\* C14 (as stated): showing another module leaves every sampler as it was:
\* its running flag, its position or parameters and what it has accumulated.
C14_RunSurvivesNavigation ==
    [][ (currentModule' # currentModule) =>
          UNCHANGED <<isRunning, position, history, totalCount,
                      gibbsIsRunning, gibbsPosition, gibbsHistory,
                      isSimulating, particle, samples,
                      isOptimizing, mu, sigma, optimizationHistory>> ]_vars

\* C15: while a sampler is paused no automatic step executes: with the
\* Metropolis-Hastings run stopped, position, history and the two counters
\* only change through a manual decision or a reset; with the Gibbs run
\* stopped, position, history and turn only change through the Step button,
\* a reset or a change of rho; with the variational run stopped, mu, sigma
\* and the history only change through the sliders, a reset or a start.
C15_PausedMeansNoStep ==
    [][ (currentModule' = currentModule) =>
          /\ (~isRunning /\ ~isRunning') =>
                \/ UNCHANGED <<position, history, acceptedCount, totalCount>>
                \/ mhOp'.kind = "manual"
                \/ (mhOp' = NoOp /\ totalCount' = 0 /\ history' = <<>>)
          /\ (~gibbsIsRunning /\ ~gibbsIsRunning') =>
                \/ UNCHANGED <<gibbsPosition, gibbsHistory, turn>>
                \/ (gibbsOp'.kind = "step" /\ ~gibbsOp'.auto)
                \/ gibbsOp'.kind \in {"reset", "rho"}
          /\ (~isOptimizing /\ ~isOptimizing') =>
                \/ UNCHANGED <<mu, sigma, optimizationHistory>>
                \/ viOp'.kind \in {"mu", "sigma", "reset"} ]_vars

\* The Metropolis-Hastings run has been paused after it made steps
C15_Witness ==
    /\ currentModule = "METROPOLIS"
    /\ ~isRunning
    /\ mhOp = NoOp
    /\ totalCount > 0
    /\ history # <<>>
    /\ burstLeft = 0

\* C16: an automatic step whose proposal lies outside the box adds exactly
\* 1 to totalCount and leaves position, acceptedCount, history and a pending
\* manual proposal as they were.
C16_OutOfBoundsFrame ==
    [][ (burstLeft > 0 /\ burstLeft' = burstLeft - 1 /\ mhOp'.oob) =>
          /\ totalCount' = totalCount + 1
          /\ UNCHANGED <<position, acceptedCount, history, proposal>> ]_vars

\* An automatic step has just been rejected for leaving the box while a
\* manual proposal was pending and the history was not empty
C16_Witness ==
    /\ mhOp.kind = "auto"
    /\ mhOp.oob
    /\ proposal # NoProposal
    /\ history # <<>>
    /\ totalCount > Len(history)

\* C17: in manual mode propose and decide alternate: a pending proposal is
\* never replaced by another propose, a decision is only made on a pending
\* proposal, each decision clears the proposal and adds exactly 1 to
\* totalCount, and a pending proposal only goes away by a decision or a reset.
C17_ProposeDecideAlternate ==
    [][ /\ (proposal # NoProposal /\ proposal' # NoProposal) =>
              proposal' = proposal
        /\ (lastDecision = NoDecision /\ lastDecision' # NoDecision) =>
              /\ proposal # NoProposal
              /\ proposal' = NoProposal
              /\ totalCount' = totalCount + 1
              /\ mhOp'.kind = "manual"
        /\ (lastDecision # NoDecision /\ lastDecision' # NoDecision) =>
              /\ lastDecision' = lastDecision
              /\ mhOp'.kind = "manual" => mhOp' = mhOp
        /\ (proposal # NoProposal /\ proposal' = NoProposal) =>
              \/ (lastDecision = NoDecision /\ lastDecision' # NoDecision)
              \/ (totalCount' = 0 /\ history' = <<>>) ]_vars

\* Two rounds of propose and decide have been made by hand
C17_Witness ==
    /\ mhOp.kind = "manual"
    /\ lastDecision # NoDecision
    /\ proposal = NoProposal
    /\ totalCount = 2
    /\ Len(history) = 2

\* C18: a Gibbs step changes only the coordinate whose turn it is: on turn
\* 'X' the y coordinate is the same after the step as before it, on turn
\* 'Y' the x coordinate is.
C18_AxisAligned ==
    [][ (gibbsOp'.kind = "step" /\ turn' # turn) =>
          IF turn = "X"
            THEN gibbsPosition'.y = gibbsPosition.y
            ELSE gibbsPosition'.x = gibbsPosition.x ]_vars

\* A step on turn 'X' has just moved x and a step on turn 'Y' before it
\* had moved y
C18_Witness ==
    /\ gibbsOp.kind = "step"
    /\ gibbsOp.sampled = "X"
    /\ gibbsOp.prev = "Y"
    /\ gibbsPosition.x # gibbsOp.usedPos.x
    /\ gibbsPosition.y = gibbsOp.usedPos.y

C20_LaunchClearsTrajectory ==
    [][ /\ (~isSimulating /\ isSimulating') =>
              /\ hmcOp'.kind = "launch"
              /\ particle'.path = <<>>
              /\ energyHistory' = <<>>
              /\ particle'.q = particle.q
              /\ initialEnergy' =
                    <<potentialEnergy(particle'.q.x, particle'.q.y)
                        + kineticEnergy(particle'.p.x, particle'.p.y, mass)>>
        /\ (particle'.path # particle.path) =>
              \/ particle'.path = <<>>
              \/ /\ particle'.path = Append(particle.path, particle'.q)
                 /\ isSimulating ]_vars

\* A second trajectory has just been launched from the end point of the
\* first one, whose path and energy history were not empty
C20_Witness ==
    /\ hmcOp.kind = "launch"
    /\ isSimulating
    /\ samples # <<>>
    /\ particle.path = <<>>
    /\ energyHistory = <<>>
    /\ particle.q # HMCStart.q
    /\ particle.p # HMCStart.p

\* C21: a leapfrog step takes (q, p) to (q', p'') with
\* p' = p - (dt/2) gradU(q), q' = q + dt p'/m, p'' = p' - (dt/2) gradU(q'),
\* and appends exactly q' to the path.
C21_LeapfrogStep ==
    [][ (Len(particle'.path) = Len(particle.path) + 1) =>
          LET q == particle.q
              p == particle.p
              gq == donutGradient(q.x, q.y)
              half == Pos(p.x - Quot(dt * gq.dx, 2 * HScale),
                          p.y - Quot(dt * gq.dy, 2 * HScale))
              qNew == Pos(q.x + Quot(dt * half.x, mass * HScale),
                          q.y + Quot(dt * half.y, mass * HScale))
              gNew == donutGradient(qNew.x, qNew.y)
              pNew == Pos(half.x - Quot(dt * gNew.dx, 2 * HScale),
                          half.y - Quot(dt * gNew.dy, 2 * HScale))
          IN /\ particle'.q = qNew
             /\ particle'.p = pNew
             /\ particle'.path = Append(particle.path, qNew) ]_vars

\* Two steps of size 0.25 have been made, the second from a position with
\* another gradient than the first
C21_Witness ==
    /\ isSimulating
    /\ dt = 250
    /\ Len(particle.path) = 2
    /\ particle.path[2] = particle.q
    /\ donutGradient(particle.path[1].x, particle.path[1].y)
         # donutGradient(particle.q.x, particle.q.y)

\* C22 (as stated): the potential in the energy diagnostics is the potential
\* whose gradient drives the leapfrog step, U(q) = 1/2 (|q| - R)^2: the U of
\* the newest energy entry is that potential at the particle's position, and
\* the initial energy of a launch is that potential at the launch position
\* plus the kinetic energy of the launch momentum.
C22_DiagnosticsUseDonutPotential ==
    /\ (energyHistory # <<>>) =>
          Last(energyHistory).U = donutPotential(particle.q.x, particle.q.y)
    /\ (hmcOp.kind = "launch") =>
          initialEnergy = <<donutPotential(particle.q.x, particle.q.y)
                             + kineticEnergy(particle.p.x, particle.p.y, mass)>>

\* C23: every optimization step, the one that detects convergence included,
\* appends exactly one entry holding mu and sigma after the update; a reset
\* and every start of the optimization empty the history; a pause and the
\* sliders leave it as it is.
C23_HistoryPerStep ==
    [][ /\ (viOp'.kind = "step" /\ viSteps' = viSteps + 1) =>
              optimizationHistory' =
                  Append(optimizationHistory, [mu |-> mu', sigma |-> sigma'])
        /\ (viOp'.kind = "reset" \/ (~isOptimizing /\ isOptimizing')) =>
              optimizationHistory' = <<>>
        /\ (isOptimizing /\ ~isOptimizing' /\ viOp'.kind = "toggle") =>
              optimizationHistory' = optimizationHistory
        /\ (optimizationHistory' # optimizationHistory) =>
              \/ viOp'.kind = "step" /\ viSteps' = viSteps + 1
              \/ optimizationHistory' = <<>> ]_vars

\* The run has been paused by the button after two steps that moved mu, and
\* the history still holds their two entries
C23_Witness ==
    /\ viOp.kind = "toggle"
    /\ ~isOptimizing
    /\ Len(optimizationHistory) = 2
    /\ optimizationHistory[2] = [mu |-> mu, sigma |-> sigma]
    /\ optimizationHistory[1].mu # optimizationHistory[2].mu

\* C24 (as stated): a manual decision always evaluates a proposal that was
\* drawn from the position the chain has at the decision, with the proposal
\* width in force at the decision.
C24_DecideOnFreshProposal ==
    [][ (lastDecision = NoDecision /\ lastDecision' # NoDecision) =>
          proposedFrom = [pos |-> position, sd |-> proposalSigma] ]_vars

\* C25 (as stated): when Reset Data or a mode button has just left the coin
\* evidence empty, the next thing to happen does not add a head or a tail:
\* a flip must be started first, and starting one is a step of its own.
C25_NoFlipLandsAfterReset ==
    [][ (anOp.kind \in {"resetData", "mode"} /\ heads = 0 /\ tails = 0) =>
          (heads' = 0 /\ tails' = 0) ]_vars

\* C26 (as stated): the timeout set when a trajectory is launched stays
\* pending for as long as the trajectory runs, whatever is done to dt, so
\* that the trajectory halts 3 s after the launch.
C26_TimerSurvivesDtChange ==
    [][ (isSimulating /\ isSimulating' /\ timerPending) => timerPending' ]_vars

\* C27: 0 <= acceptedCount <= totalCount always; every automatic step and
\* every manual decision adds exactly 1 to totalCount; acceptedCount grows
\* by 1 exactly in the steps and decisions that accept, which are exactly
\* the ones that replace the position by the accepted proposal; otherwise
\* the two counters and the position only change by a reset, which zeroes
\* the counters.
C27_CountersConsistent ==
    [][ /\ 0 <= acceptedCount' /\ acceptedCount' <= totalCount'
        /\ ((burstLeft > 0 /\ burstLeft' = burstLeft - 1)
              \/ (lastDecision = NoDecision /\ lastDecision' # NoDecision)) =>
              /\ totalCount' = totalCount + 1
              /\ IF mhOp'.acc
                   THEN /\ acceptedCount' = acceptedCount + 1
                        /\ position' = mhOp'.prop
                   ELSE /\ acceptedCount' = acceptedCount
                        /\ position' = position
        /\ (<<totalCount', acceptedCount', position'>>
                # <<totalCount, acceptedCount, position>>) =>
              \/ totalCount' = totalCount + 1
              \/ (totalCount' = 0 /\ acceptedCount' = 0 /\ position' = StartPos)
      ]_vars

\* Three attempts have been made, at least one accepted and at least one
\* not, the newest one an accepted manual decision
C27_Witness ==
    /\ totalCount = 3
    /\ acceptedCount >= 1
    /\ acceptedCount < totalCount
    /\ mhOp.kind = "manual"
    /\ mhOp.acc
    /\ position = mhOp.prop

\* C28: while a trajectory runs, a mouse press, a drag release and a Gentle
\* Launch click change nothing of the particle, the energy history and
\* initialEnergy; a launch only happens when no trajectory runs, and during
\* a trajectory initialEnergy stays and the momentum only changes by
\* leapfrog steps.
C28_LaunchIgnoredWhileRunning ==
    [][ /\ (isSimulating /\ hmcOp'.kind \in {"down", "up", "gentle"}) =>
              UNCHANGED <<particle, energyHistory, initialEnergy, isSimulating>>
        /\ (hmcOp'.kind = "launch" /\ hmcOp' # hmcOp) => ~isSimulating
        /\ (isSimulating /\ isSimulating') =>
              /\ initialEnergy' = initialEnergy
              /\ (particle'.p # particle.p) =>
                    particle'.path = Append(particle.path, particle'.q) ]_vars

\* A drag begun before a gentle launch has just been released while the
\* trajectory was running, after its first steps
C28_Witness ==
    /\ hmcOp.kind = "up"
    /\ isSimulating
    /\ draggingRef # NoDrag
    /\ particle.path # <<>>
    /\ particle.p # HMCStart.p

C30_TutorialCompletes == <>(firstFlipUnlocked /\ tutorialStep = 0)

====
